---- MODULE Spec2Model ----
(***************************************************************************)
(* MatrixFinder of the XOR / Gauss-Jordan subsystem (src/matrixfinder.cpp). *)
(* One run of MatrixFinder::find_matrices is modelled step by step: the     *)
(* preprocessing calls, the three global short-circuits, every iteration    *)
(* of the partitioning loop, the shape evaluation with the sort, every      *)
(* iteration of the admission loop and the final reattachment.              *)
(***************************************************************************)
EXTENDS Integers, Sequences, FiniteSets

(* ------------------------------ bounds --------------------------------- *)

\* solver->nVars(): the variables are 0 .. NVars-1
NVars == 4

\* longest XOR list handed to find_matrices
MaxXors == 4

(* --------------------------- program constants ------------------------- *)

\* var_Undef, the "belongs to no component" entry of table
var_Undef == 268435455

\* the "not in any matrix" tag written into Xor::in_matrix
NotInMatrix == 1000

Vars == 0 .. (NVars - 1)

(* ------------------------------ helpers -------------------------------- *)

Range(s) == { s[k] : k \in DOMAIN s }

RECURSIVE SetToSeq(_)
\* the elements of a finite set of numbers in increasing order
\* (iteration order of std::set<uint32_t>)
SetToSeq(S) ==
    IF S = {} THEN << >>
    ELSE LET m == CHOOSE x \in S : \A y \in S : x <= y
         IN  << m >> \o SetToSeq(S \ {m})

RECURSIVE Flatten(_)
Flatten(ss) == IF ss = << >> THEN << >> ELSE Head(ss) \o Flatten(Tail(ss))

RECURSIVE SumSizes(_)
SumSizes(xs) == IF xs = << >> THEN 0 ELSE Len(Head(xs).vars) + SumSizes(Tail(xs))

\* the subsequence of s at the positions I
SubSeqAt(s, I) == LET idx == SetToSeq(I) IN [ k \in 1 .. Len(idx) |-> s[idx[k]] ]

Perms(n) == { p \in [1 .. n -> 1 .. n] : \A i, j \in 1 .. n : i # j => p[i] # p[j] }

(* ------------------------------- Xor ----------------------------------- *)

\* Xor::trivial(): no variable left and right-hand side false ("0 = 0")
trivial(x) == Len(x.vars) = 0 /\ x.rhs = FALSE

\* XOR constraints the solver may hold when find_matrices is called: the
\* constraints v (+) v+1 along the variables, alternating right-hand side and
\* in_matrix tag (a stale matrix number or the sentinel), and the trivial one
XorCands ==
    { [vars |-> << v, v + 1 >>, rhs |-> (v % 2 = 1),
       in_matrix |-> IF v % 2 = 0 THEN 0 ELSE NotInMatrix] : v \in 0 .. (NVars - 2) }
    \cup { [vars |-> << >>, rhs |-> FALSE, in_matrix |-> NotInMatrix] }

XorLists == UNION { [1 .. n -> XorCands] : n \in 0 .. MaxXors }

VARIABLES
    pc,             \* position inside find_matrices
    ok,             \* solver->ok
    ret,            \* << >> while find_matrices runs, << b >> once it has returned b
    matrix_created, \* the out-parameter of find_matrices
    xorclauses,     \* solver->xorclauses
    attached,       \* whether solver->xorclauses is attached to the solver
    preprocessed,   \* solver->xorclauses as left by xor_together_xors (line 113)
    conf,           \* solver->conf (gaussconf and sampling_vars)
    interOf,        \* outside variable -> internal variable (bva, replacement, outer->inter)
    assigned,       \* internal variables with solver->value(v) != l_Undef
    table,          \* MatrixFinder::table
    reverseTable,   \* MatrixFinder::reverseTable
    matrix_no,      \* MatrixFinder::matrix_no
    xi,             \* position of the partitioning loop in xorclauses
    matrix_shape,   \* local matrix_shape, after the sort
    xorsInMatrix,   \* local xorsInMatrix
    a,              \* loop variable of the admission loop (1-based position)
    realMatrixNum,  \* local realMatrixNum
    gmatrices,      \* solver->gmatrices
    gqueuedata,     \* solver->gqueuedata.size()
    seen            \* solver->seen

vars == << pc, ok, ret, matrix_created, xorclauses, attached, preprocessed, conf,
           interOf, assigned, table, reverseTable, matrix_no, xi, matrix_shape,
           xorsInMatrix, a, realMatrixNum, gmatrices, gqueuedata, seen >>

(* --------------------------- configurations ---------------------------- *)

NoSampling == [null |-> TRUE, v |-> << >>]
Sampling(s) == [null |-> FALSE, v |-> s]

\* the sampling set together with the variable mapping and the assignment it
\* is resolved against: no set, an empty set, one variable mapped to itself,
\* two variables mapped one up (the last one to an assigned variable beyond
\* nVars), and that last variable alone
SamplingEnvs ==
    { [s |-> NoSampling, m |-> [o \in Vars |-> o], asg |-> {}],
      [s |-> Sampling(<< >>), m |-> [o \in Vars |-> o], asg |-> {}],
      [s |-> Sampling(<< 0 >>), m |-> [o \in Vars |-> o], asg |-> {}],
      [s |-> Sampling(<< 0, NVars - 1 >>), m |-> [o \in Vars |-> o + 1], asg |-> {NVars}],
      [s |-> Sampling(<< NVars - 1 >>), m |-> [o \in Vars |-> o + 1], asg |-> {NVars}] }

\* configurations that exercise the three global short-circuits
GateConfs ==
    [ doMatrixFind : BOOLEAN,
      min_gauss_xor_clauses : {1, 3},
      max_gauss_xor_clauses : {2, 9},
      max_matrix_rows : {3},
      max_matrix_columns : {4},
      min_matrix_rows : {1},
      max_num_matrices : {2},
      sampling_vars : {NoSampling, Sampling(<< 0 >>)} ]

\* configurations that pass the short-circuits and exercise the admission rules
AdmConfs ==
    [ doMatrixFind : {TRUE},
      min_gauss_xor_clauses : {1},
      max_gauss_xor_clauses : {9},
      max_matrix_rows : {1, 3},
      max_matrix_columns : {2, 4},
      min_matrix_rows : {1, 2},
      max_num_matrices : {1, 2},
      sampling_vars : { e.s : e \in SamplingEnvs } ]

\* the configuration under which every constraint list in every order is run
PlainConf ==
    [ doMatrixFind |-> TRUE,
      min_gauss_xor_clauses |-> 1,
      max_gauss_xor_clauses |-> 9,
      max_matrix_rows |-> 3,
      max_matrix_columns |-> 4,
      min_matrix_rows |-> 1,
      max_num_matrices |-> 1,
      sampling_vars |-> NoSampling ]

\* lists for the short-circuit configurations: the first constraint and the trivial one
GateLists ==
    { l \in XorLists : \A k \in DOMAIN l : trivial(l[k]) \/ l[k].vars[1] = 0 }

\* lists for the admission configurations: non-trivial constraints, by first variable
AdmLists ==
    { l \in XorLists :
        /\ \A k \in DOMAIN l : ~trivial(l[k])
        /\ \A k \in 1 .. (Len(l) - 1) : l[k].vars[1] <= l[k + 1].vars[1] }

(* -------------------------------- Init --------------------------------- *)

\* state in which find_matrices is entered: its preconditions hold
\* (solver->ok, no matrix in the registry), MatrixFinder freshly constructed
Init ==
    /\ pc = "start"
    /\ ok = TRUE
    /\ ret = << >>
    /\ matrix_created = FALSE
    /\ attached = TRUE
    /\ preprocessed = << >>
    /\ \E e \in SamplingEnvs :
          /\ interOf = e.m
          /\ assigned = e.asg
          /\ \/ /\ conf = PlainConf
                /\ e.s = conf.sampling_vars
                /\ xorclauses \in XorLists
             \/ /\ conf \in { c \in GateConfs : c.sampling_vars = e.s }
                /\ xorclauses \in GateLists
             \/ /\ conf \in { c \in AdmConfs : c.sampling_vars = e.s }
                /\ xorclauses \in AdmLists
    /\ table = [v \in Vars |-> var_Undef]
    /\ reverseTable = << >>
    /\ matrix_no = 0
    /\ xi = 0
    /\ matrix_shape = << >>
    /\ xorsInMatrix = << >>
    /\ a = 0
    /\ realMatrixNum = 0
    /\ gmatrices = << >>
    /\ gqueuedata \in {0, 1}
    /\ seen = [v \in Vars |-> 0]

(* ------------------------ find_matrices: entry ------------------------- *)

\* lines 96-107: detach the XORs, preset the out-parameter, reset the tables
Start ==
    /\ pc = "start"
    /\ ok /\ gmatrices = << >>
    /\ attached' = FALSE
    /\ matrix_created' = TRUE
    /\ table' = [v \in Vars |-> var_Undef]
    /\ reverseTable' = << >>
    /\ matrix_no' = 0
    /\ pc' = "clean"
    /\ UNCHANGED << ok, ret, xorclauses, preprocessed, conf, interOf, assigned, xi,
                    matrix_shape, xorsInMatrix, a, realMatrixNum, gmatrices,
                    gqueuedata, seen >>

\* line 110: ClauseCleaner::clean_xor_clauses removes constraints from the list
\* and may find the solver inconsistent; its result is not looked at
CleanXorClauses ==
    /\ pc = "clean"
    /\ \E I \in SUBSET (DOMAIN xorclauses) : xorclauses' = SubSeqAt(xorclauses, I)
    /\ ok' \in BOOLEAN
    /\ pc' = "together"
    /\ UNCHANGED << ret, matrix_created, attached, preprocessed, conf, interOf, assigned,
                    table, reverseTable, matrix_no, xi, matrix_shape, xorsInMatrix, a,
                    realMatrixNum, gmatrices, gqueuedata, seen >>

\* XorFinder::xor_together_xors: reports solver->okay(), which is false when the
\* solver already was inconsistent or when combining finds a contradiction
xor_together_xors(okBefore, contradiction) == okBefore /\ ~contradiction

\* mutant: the result of xor_together_xors is not checked
AbortOnContradiction_ignored(okay) == FALSE

\* line 113: the early return on a contradiction
AbortOnContradiction(okay) == ~okay

\* lines 112-116
XorTogether ==
    /\ pc = "together"
    /\ \E contradiction \in BOOLEAN :
          LET okay == xor_together_xors(ok, contradiction) IN
          /\ ok' = okay
          /\ IF AbortOnContradiction(okay)
             THEN /\ ret' = << FALSE >>
                  /\ pc' = "done"
             ELSE /\ ret' = ret
                  /\ pc' = "gate"
    /\ preprocessed' = xorclauses
    /\ UNCHANGED << matrix_created, xorclauses, attached, conf, interOf, assigned, table,
                    reverseTable, matrix_no, xi, matrix_shape, xorsInMatrix, a,
                    realMatrixNum, gmatrices, gqueuedata, seen >>

(* -------------------- the three global short-circuits ------------------ *)

\* mutant: the size gate is off by one
TooFewXors_offbyone(xs, c) == Len(xs) + 1 < c.min_gauss_xor_clauses

\* line 118
TooFewXors(xs, c) == Len(xs) < c.min_gauss_xor_clauses

\* lines 124-125
TooManyXors(xs, c) ==
    Len(xs) > c.max_gauss_xor_clauses /\ ~c.sampling_vars.null

\* line 135
MatrixFindDisabled(c) == ~c.doMatrixFind

\* Solver::attach_xorclauses: attaches solver->xorclauses as they are and
\* reports solver->okay()
attach_xorclauses(okay) == okay

\* the common tail of the short-circuits: gqueuedata.clear() and
\* return attach_xorclauses()
ShortCircuitReturn ==
    /\ gqueuedata' = 0
    /\ attached' = TRUE
    /\ ret' = << attach_xorclauses(ok) >>
    /\ pc' = "done"
    /\ UNCHANGED << ok, xorclauses, preprocessed, conf, interOf, assigned, table,
                    reverseTable, matrix_no, xi, matrix_shape, xorsInMatrix, a,
                    realMatrixNum, gmatrices, seen >>

\* lines 118-123
SkipTooFew ==
    /\ pc = "gate"
    /\ TooFewXors(xorclauses, conf)
    /\ matrix_created' = FALSE
    /\ ShortCircuitReturn

\* lines 124-134
SkipTooMany ==
    /\ pc = "gate"
    /\ ~TooFewXors(xorclauses, conf)
    /\ TooManyXors(xorclauses, conf)
    /\ matrix_created' = FALSE
    /\ ShortCircuitReturn

\* lines 135-139: matrix_created is not written here
SkipDisabled ==
    /\ pc = "gate"
    /\ ~TooFewXors(xorclauses, conf)
    /\ ~TooManyXors(xorclauses, conf)
    /\ MatrixFindDisabled(conf)
    /\ matrix_created' = matrix_created
    /\ ShortCircuitReturn

\* lines 141-142: no short-circuit applies, the partitioning loop is entered
EnterPartition ==
    /\ pc = "gate"
    /\ ~TooFewXors(xorclauses, conf)
    /\ ~TooManyXors(xorclauses, conf)
    /\ ~MatrixFindDisabled(conf)
    /\ xi' = 1
    /\ pc' = "partition"
    /\ UNCHANGED << ok, ret, matrix_created, xorclauses, attached, preprocessed, conf,
                    interOf, assigned, table, reverseTable, matrix_no, matrix_shape,
                    xorsInMatrix, a, realMatrixNum, gmatrices, gqueuedata, seen >>

(* ------------------------- Component Partitioner ----------------------- *)

RECURSIVE belong_scan(_, _, _, _, _)
\* lines 78-88: the scan of belong_same_matrix from position k on. comp_num holds
\* the component seen so far; none_yet stands for comp_num still being
\* numeric_limits<uint32_t>::max(), a value no table entry takes
belong_scan(tbl, vs, k, none_yet, comp_num) ==
    IF k > Len(vs) THEN TRUE
    ELSE IF tbl[vs[k]] = var_Undef THEN FALSE
    ELSE IF none_yet THEN belong_scan(tbl, vs, k + 1, FALSE, tbl[vs[k]])
    ELSE IF comp_num # tbl[vs[k]] THEN FALSE
    ELSE belong_scan(tbl, vs, k + 1, FALSE, comp_num)

\* mutant: a constraint without variables is not taken to belong to one matrix
belong_same_matrix_nonempty(tbl, x) ==
    Len(x.vars) > 0 /\ belong_scan(tbl, x.vars, 1, TRUE, 0)

\* lines 76-89
belong_same_matrix(tbl, x) == belong_scan(tbl, x.vars, 1, TRUE, 0)

\* lines 147-150: the components the constraint touches
tomerge_of(tbl, x) == { tbl[v] : v \in { w \in Range(x.vars) : tbl[w] # var_Undef } }

\* mutant: the scan stops one variable early
newSet_of_short(tbl, x) ==
    SelectSeq(SubSeq(x.vars, 1, Len(x.vars) - 1), LAMBDA v : tbl[v] = var_Undef)

\* lines 147-150: the variables of the constraint that have no component yet
newSet_of(tbl, x) == SelectSeq(x.vars, LAMBDA v : tbl[v] = var_Undef)

\* mutant: the new variables are listed in the component but table is not updated
absorb_no_table(tbl, rev, mno, into, newSet) ==
    [ table        |-> tbl,
      reverseTable |-> [rev EXCEPT ![into] = @ \o newSet],
      matrix_no    |-> mno ]

\* lines 153-160: exactly one component touched, the new variables join it
absorb(tbl, rev, mno, into, newSet) ==
    [ table        |-> [v \in Vars |-> IF v \in Range(newSet) THEN into ELSE tbl[v]],
      reverseTable |-> [rev EXCEPT ![into] = @ \o newSet],
      matrix_no    |-> mno ]

\* mutant: a merge takes over the smallest touched identifier
move_to_new_reuse(tbl, rev, mno, tomerge, newSet) ==
    LET olds == SetToSeq(tomerge)
        all  == newSet \o Flatten([k \in 1 .. Len(olds) |-> rev[olds[k]]])
        id   == IF tomerge = {} THEN mno
                ELSE CHOOSE c \in tomerge : \A d \in tomerge : c <= d
    IN  [ table        |-> [v \in Vars |-> IF v \in Range(all) THEN id ELSE tbl[v]],
          reverseTable |-> [c \in (DOMAIN rev \ tomerge) \cup {id} |->
                                IF c = id THEN all ELSE rev[c]],
          matrix_no    |-> mno + 1 ]

\* mutant: the members of the touched components are not migrated
move_to_new_lost(tbl, rev, mno, tomerge, newSet) ==
    [ table        |-> [v \in Vars |-> IF v \in Range(newSet) THEN mno ELSE tbl[v]],
      reverseTable |-> [c \in (DOMAIN rev \ tomerge) \cup {mno} |->
                            IF c = mno THEN newSet ELSE rev[c]],
      matrix_no    |-> mno + 1 ]

\* lines 163-170: zero or several components touched, everything moves to the
\* fresh component matrix_no and the touched ones are erased
move_to_new(tbl, rev, mno, tomerge, newSet) ==
    LET olds == SetToSeq(tomerge)
        all  == newSet \o Flatten([k \in 1 .. Len(olds) |-> rev[olds[k]]])
    IN  [ table        |-> [v \in Vars |-> IF v \in Range(all) THEN mno ELSE tbl[v]],
          reverseTable |-> [c \in (DOMAIN rev \ tomerge) \cup {mno} |->
                                IF c = mno THEN all ELSE rev[c]],
          matrix_no    |-> mno + 1 ]

\* lines 143-171: one iteration of the partitioning loop
partition_step(tbl, rev, mno, x) ==
    IF belong_same_matrix(tbl, x)
    THEN [table |-> tbl, reverseTable |-> rev, matrix_no |-> mno]
    ELSE LET tomerge == tomerge_of(tbl, x)
             newSet  == newSet_of(tbl, x)
         IN  IF Cardinality(tomerge) = 1
             THEN absorb(tbl, rev, mno, CHOOSE c \in tomerge : TRUE, newSet)
             ELSE move_to_new(tbl, rev, mno, tomerge, newSet)

PartitionIter ==
    /\ pc = "partition"
    /\ xi <= Len(xorclauses)
    /\ LET r == partition_step(table, reverseTable, matrix_no, xorclauses[xi]) IN
          /\ table' = r.table
          /\ reverseTable' = r.reverseTable
          /\ matrix_no' = r.matrix_no
    /\ xi' = xi + 1
    /\ UNCHANGED << pc, ok, ret, matrix_created, xorclauses, attached, preprocessed, conf,
                    interOf, assigned, matrix_shape, xorsInMatrix, a, realMatrixNum,
                    gmatrices, gqueuedata, seen >>

(* ------------------------------ Shape Evaluator ------------------------ *)

\* mutant: with sampling variables the row limit is always set to 3 x their number
raised_max_rows_always(c) ==
    IF ~c.sampling_vars.null THEN 3 * Len(c.sampling_vars.v) ELSE c.max_matrix_rows

\* lines 193-197: with sampling variables the row limit is raised to 3 x their number
raised_max_rows(c) ==
    IF ~c.sampling_vars.null /\ c.max_matrix_rows < 3 * Len(c.sampling_vars.v)
    THEN 3 * Len(c.sampling_vars.v)
    ELSE c.max_matrix_rows

\* lines 205, 260, 279, 332: reverseTable[i] through std::map::operator[], which
\* yields an empty list for an identifier without entry
members_of(rev, i) == IF i \in DOMAIN rev THEN rev[i] ELSE << >>

\* lines 209-221: the constraints put into slot i, found through their first variable
xors_of(xs, tbl, i) == SelectSeq(xs, LAMBDA x : ~trivial(x) /\ tbl[x.vars[1]] = i)

\* lines 202-221: MatrixShape of component i
shape_of(xs, tbl, rev, i) ==
    [ num |-> i,
      rows |-> Len(xors_of(xs, tbl, i)),
      cols |-> Len(members_of(rev, i)),
      sum_xor_sizes |-> SumSizes(xors_of(xs, tbl, i)) ]

\* line 215: assert(matrix < matrix_no) holds for every constraint
shape_assert_ok(xs, tbl, mno) ==
    \A k \in DOMAIN xs : ~trivial(xs[k]) => tbl[xs[k].vars[1]] < mno

\* line 227: std::sort(matrix_shape, mysorter()): the order the comparator
\* produces is left open, any arrangement of the shapes may result
sorted_shapes(shapes) ==
    { [k \in 1 .. Len(shapes) |-> shapes[p[k]]] : p \in Perms(Len(shapes)) }

\* lines 191-232: setup_matrices_attach_remaining_cls up to the admission loop
Setup ==
    /\ pc = "partition"
    /\ xi > Len(xorclauses)
    /\ conf' = [conf EXCEPT !.max_matrix_rows = raised_max_rows(conf)]
    /\ reverseTable' = [i \in DOMAIN reverseTable \cup (0 .. (matrix_no - 1)) |->
                            members_of(reverseTable, i)]
    /\ IF shape_assert_ok(xorclauses, table, matrix_no)
       THEN /\ xorsInMatrix' = [k \in 1 .. matrix_no |-> xors_of(xorclauses, table, k - 1)]
            /\ matrix_shape' \in sorted_shapes(
                  [k \in 1 .. matrix_no |->
                      shape_of(xorclauses, table, reverseTable, k - 1)])
            /\ xorclauses' = << >>
            /\ a' = matrix_no
            /\ realMatrixNum' = 0
            /\ pc' = "admit"
       ELSE /\ pc' = "assert_failed"
            /\ UNCHANGED << xorsInMatrix, matrix_shape, xorclauses, a, realMatrixNum >>
    /\ UNCHANGED << ok, ret, matrix_created, attached, preprocessed, interOf, assigned,
                    table, matrix_no, xi, gmatrices, gqueuedata, seen >>

(* ------------------------------ Admission Policy ----------------------- *)

\* mutant: the column limit is not applied
size_rules_nocols(m, c) ==
    /\ ~(m.rows > c.max_matrix_rows)
    /\ ~(m.rows < c.min_matrix_rows)

\* lines 237-253: the row, column and minimum-row rules
size_rules(m, c) ==
    /\ ~(m.rows > c.max_matrix_rows)
    /\ ~(m.cols > c.max_matrix_columns)
    /\ ~(m.rows < c.min_matrix_rows)

\* lines 260, 279: seen[] with the members of the component set to val
mark_seen(sn, members, val) ==
    [v \in DOMAIN sn |-> IF v \in Range(members) THEN val ELSE sn[v]]

\* mutant: the marks of the component are left in seen[]
clear_seen_skipped(sn, members) == sn

\* line 279: the entries of the component's members are cleared again
clear_seen(sn, members) == mark_seen(sn, members, 0)

\* lines 264-276: the sampling variables that are assigned or marked in seen[]
sampling_inside(c, iOf, asg, sn) ==
    Cardinality({ k \in DOMAIN c.sampling_vars.v :
        LET int_var == iOf[c.sampling_vars.v[k]] IN
        \/ int_var \in asg
        \/ (int_var < NVars /\ sn[int_var] # 0) })

\* lines 280, 293: (double)inside / (double)tot >= 0.6; 0/0 is NaN and compares false
ratio_good(inside, tot) == tot # 0 /\ 10 * inside >= 6 * tot

\* mutant: the cap lets one matrix too many through
count_rule_late(use_matrix, realNum, c) ==
    use_matrix /\ ~(realNum > c.max_num_matrices)

\* lines 283-287: the cap on the number of matrices
count_rule(use_matrix, realNum, c) ==
    use_matrix /\ ~(realNum >= c.max_num_matrices)

\* mutant: the override also applies to a component of exactly min_matrix_rows rows
override_at_min(use_matrix, m, c, good) ==
    IF m.rows >= c.min_matrix_rows /\ ~c.sampling_vars.null THEN good ELSE use_matrix

\* mutant: the override only ever turns a rejection into an acceptance
override_accept_only(use_matrix, m, c, good) ==
    IF m.rows > c.min_matrix_rows /\ ~c.sampling_vars.null /\ good
    THEN TRUE ELSE use_matrix

\* lines 289-301: the sampling override
override(use_matrix, m, c, good) ==
    IF m.rows > c.min_matrix_rows /\ ~c.sampling_vars.null THEN good ELSE use_matrix

\* lines 237-301: the decision for the component with shape m
use_matrix_of(m, c, realNum, good) ==
    override(count_rule(size_rules(m, c), realNum, c), m, c, good)

\* mutant: the tag of a rejected constraint is left as it was
reject_tag_kept(x) == x

\* lines 310-313: a rejected constraint gets the sentinel tag
reject_tag(x) == [x EXCEPT !.in_matrix = NotInMatrix]

\* mutant: the rejected constraints are not pushed back
rejected_to_pool_dropped(pool, xs) == pool

\* lines 310-313: the rejected constraints go back to solver->xorclauses
rejected_to_pool(pool, xs) == pool \o [k \in 1 .. Len(xs) |-> reject_tag(xs[k])]

\* mutant: matrices are numbered from 1
EGaussian_from_one(num, xs) == [matrix_no |-> num + 1, xorclauses |-> xs]

\* line 304: new EGaussian(solver, realMatrixNum, xorsInMatrix[i])
EGaussian(num, xs) == [matrix_no |-> num, xorclauses |-> xs]

\* lines 233-344: one iteration of the admission loop
AdmitIter ==
    /\ pc = "admit"
    /\ a >= 1
    /\ LET m       == matrix_shape[a]
           i       == m.num
           members == members_of(reverseTable, i)
           marked  == mark_seen(seen, members, 1)
           good    == ratio_good(sampling_inside(conf, interOf, assigned, marked),
                                 Len(conf.sampling_vars.v))
           use     == use_matrix_of(m, conf, realMatrixNum, good)
       IN  IF m.rows = 0
           THEN UNCHANGED << seen, gmatrices, gqueuedata, realMatrixNum, xorclauses,
                             xorsInMatrix >>
           ELSE /\ seen' = IF conf.sampling_vars.null THEN seen
                           ELSE clear_seen(marked, members)
                /\ IF use
                   THEN /\ gmatrices' = Append(gmatrices,
                                           EGaussian(realMatrixNum, xorsInMatrix[i + 1]))
                        /\ gqueuedata' = Len(gmatrices')
                        /\ realMatrixNum' = realMatrixNum + 1
                        /\ UNCHANGED << xorclauses, xorsInMatrix >>
                   ELSE /\ xorclauses' = rejected_to_pool(xorclauses, xorsInMatrix[i + 1])
                        /\ xorsInMatrix' = [xorsInMatrix EXCEPT ![i + 1] =
                               [k \in 1 .. Len(@) |-> reject_tag(@[k])]]
                        /\ UNCHANGED << gmatrices, gqueuedata, realMatrixNum >>
    /\ a' = a - 1
    /\ UNCHANGED << pc, ok, ret, matrix_created, attached, preprocessed, conf, interOf,
                    assigned, table, reverseTable, matrix_no, xi, matrix_shape >>

\* lines 345-351 and 179-188: reattach the pool (the result of attach_xorclauses
\* is not looked at), return solver->okay()
Finish ==
    /\ pc = "admit"
    /\ a = 0
    /\ attached' = TRUE
    /\ ret' = << ok >>
    /\ pc' = "done"
    /\ UNCHANGED << ok, matrix_created, xorclauses, preprocessed, conf, interOf, assigned,
                    table, reverseTable, matrix_no, xi, matrix_shape, xorsInMatrix, a,
                    realMatrixNum, gmatrices, gqueuedata, seen >>

(* ------------------------------ specification -------------------------- *)

Next ==
    \/ Start
    \/ CleanXorClauses
    \/ XorTogether
    \/ SkipTooFew
    \/ SkipTooMany
    \/ SkipDisabled
    \/ EnterPartition
    \/ PartitionIter
    \/ Setup
    \/ AdmitIter
    \/ Finish

Spec == Init /\ [][Next]_vars

(* ------------------------------ properties ----------------------------- *)

\* the partitioning loop has processed every constraint
PartitionDone == pc = "partition" /\ xi > Len(xorclauses)

\* the run went through the partitioning and the admission loop and is at its end
PipelineEnd == (pc = "admit" /\ a = 0) \/ (pc = "done" /\ xi > 0)

\* the variable sets of the constraints of a list
VarSets(xs) == { Range(xs[k].vars) : k \in DOMAIN xs } \ { {} }

RECURSIVE Closure(_, _)
\* the variables reachable from S through constraints sharing a variable
Closure(S, sets) ==
    LET T == S \cup UNION { c \in sets : c \cap S # {} }
    IN  IF T = S THEN S ELSE Closure(T, sets)

\* the connected components of a set of variable sets
ComponentsOf(sets) == { Closure({u}, sets) : u \in UNION sets }

\* the partition the variable-to-component table describes
PartitionOf(tbl) ==
    { { w \in Vars : tbl[w] = tbl[u] } : u \in { v \in Vars : tbl[v] # var_Undef } }

\* C1: once the partitioning loop has processed every constraint, two variables
\* have the same component id in table exactly if a chain of constraints that
\* pairwise share a variable connects them; the partition is the set of
\* connected components of the constraints' variable sets, hence the same for
\* every order of the list.
C1_PartitionIsConnectivity ==
    PartitionDone =>
        /\ PartitionOf(table) = ComponentsOf(VarSets(xorclauses))
        /\ \A u, v \in Vars :
              (table[u] # var_Undef /\ table[u] = table[v])
                  <=> (\E c \in ComponentsOf(VarSets(xorclauses)) : u \in c /\ v \in c)

\* a merge of two components has happened and left one component of four variables
C1_Witness ==
    /\ PartitionDone
    /\ matrix_no = 3
    /\ \E c \in PartitionOf(table) : Cardinality(c) = 4

\* a constraint without its in_matrix tag
Key(x) == [vars |-> x.vars, rhs |-> x.rhs]

Count(xs, k) == Cardinality({ j \in DOMAIN xs : Key(xs[j]) = k })

\* how often a constraint occurs in the constraint lists of the accepted matrices
CountInMatrices(k) ==
    Cardinality({ p \in (DOMAIN gmatrices) \X (1 .. MaxXors + 1) :
        p[2] \in DOMAIN gmatrices[p[1]].xorclauses
        /\ Key(gmatrices[p[1]].xorclauses[p[2]]) = k })

Keys == { Key(x) : x \in XorCands }

\* C2: at the end of a run that went through setup_matrices_attach_remaining_cls
\* every non-trivial constraint left by preprocessing is, as often as it occurs,
\* either in the list of one accepted matrix or in the general pool, and the
\* trivial constraints are in neither.
C2_Conservation ==
    PipelineEnd =>
        \A k \in Keys :
            CountInMatrices(k) + Count(xorclauses, k) =
                IF Len(k.vars) = 0 /\ ~k.rhs THEN 0 ELSE Count(preprocessed, k)

\* a run that dropped a trivial constraint, accepted one component and rejected another
C2_Witness ==
    /\ pc = "done" /\ xi > 0
    /\ \E j \in DOMAIN preprocessed : trivial(preprocessed[j])
    /\ gmatrices # << >>
    /\ xorclauses # << >>

NonTrivialCount(xs) == Cardinality({ j \in DOMAIN xs : ~trivial(xs[j]) })

\* find_matrices has returned true
ReturnedTrue == pc = "done" /\ ret = << TRUE >>

\* C4 as stated: with fewer non-trivial constraints than min_gauss_xor_clauses
\* after preprocessing, no matrix is created and the reattached pool is the
\* preprocessed list.
C4_Original ==
    (ReturnedTrue /\ NonTrivialCount(preprocessed) < conf.min_gauss_xor_clauses) =>
        /\ gmatrices = << >>
        /\ xorclauses = preprocessed

\* C4 amended: with fewer constraints in the preprocessed list, trivial ones
\* counted, than min_gauss_xor_clauses, no matrix is created and the reattached
\* pool is the preprocessed list: same constraints, same order, same tags.
C4_SizeGate ==
    (ReturnedTrue /\ Len(preprocessed) < conf.min_gauss_xor_clauses) =>
        /\ gmatrices = << >>
        /\ xorclauses = preprocessed
        /\ attached
        /\ xi = 0

\* the size gate was taken with two constraints, one of them carrying a stale tag
C4_Witness ==
    /\ ReturnedTrue
    /\ Len(preprocessed) = 2
    /\ Len(preprocessed) < conf.min_gauss_xor_clauses
    /\ conf.doMatrixFind
    /\ xorclauses = preprocessed
    /\ \E j \in DOMAIN xorclauses : xorclauses[j].in_matrix # NotInMatrix

\* find_matrices has returned through one of the three short-circuits
ShortCircuited == ReturnedTrue /\ xi = 0

\* C5: after each of the three short-circuits matrix_created is false, nothing
\* was partitioned, the registry is empty and the pool holds all constraints.
C5_ShortCircuits ==
    ShortCircuited =>
        /\ matrix_created = FALSE
        /\ matrix_no = 0
        /\ \A v \in Vars : table[v] = var_Undef
        /\ gmatrices = << >>
        /\ xorclauses = preprocessed
        /\ attached

\* C6: when find_matrices has returned, matrix_created is true exactly if a
\* matrix was appended to the registry; stated for the returns of the full
\* pipeline, where it is false when every component was rejected (the returns
\* of the short-circuits are C5's).
C6_MatrixCreatedIffMatrix ==
    (ReturnedTrue /\ xi > 0) => (matrix_created <=> gmatrices # << >>)

\* the sampling variables that are assigned or members of the component, counted
\* without the scratch array
SamplingCovered(members) ==
    Cardinality({ k \in DOMAIN conf.sampling_vars.v :
        \/ interOf[conf.sampling_vars.v[k]] \in assigned
        \/ interOf[conf.sampling_vars.v[k]] \in Range(members) })

\* ratio_sampling >= 0.6 for the component at position p of matrix_shape
RatioHigh(p) ==
    /\ Len(conf.sampling_vars.v) > 0
    /\ 10 * SamplingCovered(members_of(reverseTable, matrix_shape[p].num))
          >= 6 * Len(conf.sampling_vars.v)

InAdmission == pc = "admit" \/ (pc = "done" /\ xi > 0)

\* the positions of matrix_shape the admission loop has dealt with
Processed == { p \in DOMAIN matrix_shape : p > a }

\* the component of shape m was made an elimination matrix
InRegistry(m) ==
    \E g \in DOMAIN gmatrices : gmatrices[g].xorclauses = xorsInMatrix[m.num + 1]

\* every constraint of the component of shape m is in the general pool
InPool(m) ==
    \A k \in DOMAIN xorsInMatrix[m.num + 1] :
        Count(xorclauses, Key(xorsInMatrix[m.num + 1][k]))
            = Count(xorsInMatrix[m.num + 1], Key(xorsInMatrix[m.num + 1][k]))

\* C8: without sampling variables a component with rows > max_matrix_rows or
\* cols > max_matrix_columns is never made a matrix, and once the loop has
\* dealt with it its constraints are in the general pool.
C8_ThresholdEnforcement ==
    (InAdmission /\ conf.sampling_vars.null) =>
        \A p \in DOMAIN matrix_shape :
            LET m == matrix_shape[p] IN
            ( /\ m.rows > 0
              /\ (m.rows > conf.max_matrix_rows \/ m.cols > conf.max_matrix_columns) )
            => /\ ~InRegistry(m)
               /\ p \in Processed => InPool(m)

\* without sampling variables a component with too many rows was rejected
\* after another one had been accepted
C8_Witness ==
    /\ pc = "done" /\ xi > 0
    /\ conf.sampling_vars.null
    /\ \E p, q \in DOMAIN matrix_shape :
          /\ q > p
          /\ InRegistry(matrix_shape[q])
          /\ matrix_shape[p].rows > conf.max_matrix_rows
          /\ matrix_shape[p].cols <= conf.max_matrix_columns
          /\ InPool(matrix_shape[p])

\* the component at position p passes the row, column and minimum-row rules
Acceptable(p) == matrix_shape[p].rows > 0 /\ size_rules(matrix_shape[p], conf)

\* the acceptable components the loop dealt with before position p
AcceptableBefore(p) == { q \in DOMAIN matrix_shape : q > p /\ Acceptable(q) }

\* C9: without sampling variables the registry never holds more than
\* max_num_matrices matrices, and of the components the loop has dealt with
\* exactly the first max_num_matrices acceptable ones, in the order of the
\* loop, are matrices; the constraints of all others are in the general pool.
C9_MatrixCountCap ==
    (InAdmission /\ conf.sampling_vars.null) =>
        /\ Len(gmatrices) <= conf.max_num_matrices
        /\ Len(gmatrices) = realMatrixNum
        /\ \A p \in Processed :
              /\ InRegistry(matrix_shape[p])
                    <=> ( /\ Acceptable(p)
                          /\ Cardinality(AcceptableBefore(p)) < conf.max_num_matrices )
              /\ ~InRegistry(matrix_shape[p]) => InPool(matrix_shape[p])

\* two acceptable components under a cap of one: one matrix, the other in the pool
C9_Witness ==
    /\ pc = "done" /\ xi > 0
    /\ conf.sampling_vars.null
    /\ Cardinality({ p \in DOMAIN matrix_shape : Acceptable(p) }) > conf.max_num_matrices
    /\ Len(gmatrices) = conf.max_num_matrices
    /\ xorclauses # << >>

\* the component a non-trivial constraint lies in
ComponentOf(x) == table[x.vars[1]]

\* C10: during and after the admission loop the general pool holds only
\* constraints of rejected components: each is non-trivial, carries the
\* "not in any matrix" tag, and lies in no component that was made a matrix.
C10_PoolOnlyUnmatrixed ==
    InAdmission =>
        \A j \in DOMAIN xorclauses :
            /\ ~trivial(xorclauses[j])
            /\ xorclauses[j].in_matrix = NotInMatrix
            /\ \E p \in Processed :
                  /\ matrix_shape[p].num = ComponentOf(xorclauses[j])
                  /\ ~InRegistry(matrix_shape[p])
            /\ \A g \in DOMAIN gmatrices : \A k \in DOMAIN gmatrices[g].xorclauses :
                  /\ ComponentOf(gmatrices[g].xorclauses[k]) # ComponentOf(xorclauses[j])
                  /\ Key(gmatrices[g].xorclauses[k]) # Key(xorclauses[j])

\* a run ended with a matrix and with a pooled constraint whose tag was rewritten
C10_Witness ==
    /\ pc = "done" /\ xi > 0
    /\ gmatrices # << >>
    /\ \E j \in DOMAIN xorclauses : \E k \in DOMAIN preprocessed :
          /\ Key(preprocessed[k]) = Key(xorclauses[j])
          /\ preprocessed[k].in_matrix # NotInMatrix
          /\ xorclauses[j].in_matrix = NotInMatrix

\* C11: when find_matrices has returned true, through a short-circuit or
\* through the full pipeline, gqueuedata has as many entries as the matrix
\* registry, whatever its size was when the run started.
C11_QueueMatchesRegistry ==
    ReturnedTrue => gqueuedata = Len(gmatrices)

\* C12: the k-th accepted component (k = 0, 1, ...) is built with matrix number
\* k and stored at index k of the registry, the registry size equals
\* realMatrixNum after every acceptance, and the value returned by
\* setup_matrices_attach_remaining_cls (realMatrixNum) is the final registry size.
C12_DenseNumbering ==
    /\ \A g \in DOMAIN gmatrices : gmatrices[g].matrix_no = g - 1
    /\ InAdmission => Len(gmatrices) = realMatrixNum

\* two components were accepted, numbered 0 and 1
C12_Witness ==
    /\ pc = "done" /\ xi > 0
    /\ Len(gmatrices) = 2
    /\ realMatrixNum = 2
    /\ gmatrices[2].matrix_no = 1

\* C13: seen[] is all-zero whenever the admission loop is between two
\* components and on every exit of find_matrices (it is all-zero at entry).
C13_SeenCleared ==
    \A v \in DOMAIN seen : seen[v] = 0

\* the sampling ratio of a component with members was computed and the run ended
C13_Witness ==
    /\ pc = "done" /\ xi > 0
    /\ ~conf.sampling_vars.null
    /\ \E p \in DOMAIN matrix_shape :
          matrix_shape[p].rows > 0 /\ matrix_shape[p].cols >= 2

\* the partitioning loop is between two iterations, or finished
InPartition == pc = "partition"

\* C14: after each iteration of the partitioning loop table and reverseTable
\* are mutual inverses: table[v] = c for a defined c exactly if v occurs in
\* reverseTable[c]; every key of reverseTable has members; no variable occurs
\* twice in a list or in two lists.
C14_MutualInverses ==
    InPartition =>
        /\ \A v \in Vars :
              /\ table[v] # var_Undef => table[v] \in DOMAIN reverseTable
              /\ \A c \in DOMAIN reverseTable :
                    (table[v] = c) <=> (v \in Range(reverseTable[c]))
        /\ \A c \in DOMAIN reverseTable :
              /\ reverseTable[c] # << >>
              /\ Len(reverseTable[c]) = Cardinality(Range(reverseTable[c]))
              /\ \E v \in Vars : table[v] = c
        /\ \A c, d \in DOMAIN reverseTable :
              c # d => Range(reverseTable[c]) \cap Range(reverseTable[d]) = {}

\* a fresh component, an absorption and a skip or merge have happened
C14_Witness ==
    /\ InPartition
    /\ xi >= 3
    /\ matrix_no = 1
    /\ \E c \in DOMAIN reverseTable : Len(reverseTable[c]) = 3

\* the non-trivial constraints of a list whose variables all lie in the set S
ConstraintsWithin(xs, S) ==
    { j \in DOMAIN xs : ~trivial(xs[j]) /\ Range(xs[j].vars) \subseteq S }

\* C15: at the end of partitioning every variable of every non-trivial
\* constraint has a component, the one of the constraint's first variable
\* and below matrix_no, so the assertion of the shape evaluator never fails;
\* the rows of a shape are the non-trivial constraints whose variables lie in
\* the component and the cols its number of members.
C15_ShapesFromPartition ==
    /\ pc # "assert_failed"
    /\ PartitionDone =>
          \A j \in DOMAIN xorclauses : \A k \in DOMAIN xorclauses[j].vars :
              /\ table[xorclauses[j].vars[k]] # var_Undef
              /\ table[xorclauses[j].vars[k]] < matrix_no
              /\ table[xorclauses[j].vars[k]] = table[xorclauses[j].vars[1]]
    /\ InAdmission =>
          /\ Len(matrix_shape) = matrix_no
          /\ \A p \in DOMAIN matrix_shape :
                LET m == matrix_shape[p]
                    S == { v \in Vars : table[v] = m.num }
                IN  /\ m.rows = Cardinality(ConstraintsWithin(preprocessed, S))
                    /\ m.cols = Cardinality(S)
                    /\ m.cols = Len(members_of(reverseTable, m.num))

\* shapes were computed for a retired identifier and for a component of three
\* variables with two constraints
C15_Witness ==
    /\ pc = "admit"
    /\ \E p, q \in DOMAIN matrix_shape :
          /\ matrix_shape[p].rows >= 2 /\ matrix_shape[p].cols >= 3
          /\ matrix_shape[q].rows = 0 /\ matrix_shape[q].cols = 0

\* no trivial constraint in a list
NoTrivial(xs) == \A j \in DOMAIN xs : ~trivial(xs[j])

RECURSIVE SumRows(_)
SumRows(shapes) == IF shapes = << >> THEN 0 ELSE Head(shapes).rows + SumRows(Tail(shapes))

\* C16 as stated: after any run of find_matrices that returned true no trivial
\* constraint is in an accepted matrix or in the general pool.
C16_Original ==
    ReturnedTrue =>
        /\ NoTrivial(xorclauses)
        /\ \A g \in DOMAIN gmatrices : NoTrivial(gmatrices[g].xorclauses)

\* C16 amended: an iteration of the partitioning loop on a trivial constraint
\* changes neither table nor reverseTable nor matrix_no; in a run that goes
\* through the full pipeline the trivial constraints add no row to any component
\* and are in no accepted matrix and not in the general pool.
C16_TrivialDropped ==
    [][ /\ ( /\ pc = "partition" /\ xi <= Len(xorclauses)
             /\ trivial(xorclauses[xi]) )
           => /\ table' = table
              /\ reverseTable' = reverseTable
              /\ matrix_no' = matrix_no
        /\ (pc' = "admit" \/ (pc' = "done" /\ xi' > 0))
           => /\ NoTrivial(xorclauses')
              /\ \A g \in DOMAIN gmatrices' : NoTrivial(gmatrices'[g].xorclauses)
              /\ \A i \in DOMAIN xorsInMatrix' : NoTrivial(xorsInMatrix'[i])
              /\ SumRows(matrix_shape') = NonTrivialCount(preprocessed') ]_vars

\* a full run on a list with a trivial constraint after a non-trivial one ended
\* with a matrix
C16_Witness ==
    /\ pc = "done" /\ xi > 0
    /\ Len(preprocessed) >= 2
    /\ ~trivial(preprocessed[1])
    /\ trivial(preprocessed[2])
    /\ Len(gmatrices) = 1
    /\ matrix_no = 1

\* the existing components the variables of x map to
Touched(x) == { table[v] : v \in Range(x.vars) } \ {var_Undef}

\* the identifiers handed out so far that no variable maps to
Retired == { c \in 0 .. (matrix_no - 1) : \A v \in Vars : table[v] # c }

\* C17: identifiers are handed out as 0, 1, 2, ... in increasing order. A
\* constraint touching exactly one component leaves that component its
\* identifier and allocates none; one touching no or several components
\* allocates exactly the identifier matrix_no, and the touched components lose
\* their membership entry and all their variables. A retired identifier never
\* gets a variable or a member again in the run.
C17_IdentifiersRetired ==
    [][ /\ ( /\ pc = "partition" /\ xi <= Len(xorclauses)
             /\ ~trivial(xorclauses[xi]) )
           => LET x == xorclauses[xi]
                  T == Touched(x)
              IN  /\ Cardinality(T) = 1 =>
                        /\ matrix_no' = matrix_no
                        /\ DOMAIN reverseTable' = DOMAIN reverseTable
                        /\ \A v \in Range(x.vars) : table'[v] \in T
                        /\ \A v \in Vars : table[v] # var_Undef => table'[v] = table[v]
                  /\ Cardinality(T) # 1 =>
                        /\ matrix_no' = matrix_no + 1
                        /\ DOMAIN reverseTable' = (DOMAIN reverseTable \ T) \cup {matrix_no}
                        /\ \A v \in Range(x.vars) : table'[v] = matrix_no
                        /\ \A v \in Vars : table'[v] \notin T
                        /\ \A v \in Vars :
                              (table[v] # var_Undef /\ table[v] \notin T) => table'[v] = table[v]
        /\ matrix_no' \in {matrix_no, matrix_no + 1}
        /\ \A v \in Vars : table'[v] # var_Undef => table'[v] < matrix_no'
        /\ \A c \in Retired :
              /\ \A v \in Vars : table'[v] # c
              /\ members_of(reverseTable', c) = << >> ]_vars

\* two components were merged into a third one and the shapes were taken: the
\* two retired identifiers have no member and no variable
C17_Witness ==
    /\ pc = "admit"
    /\ matrix_no = 3
    /\ Retired = {0, 1}
    /\ DOMAIN reverseTable = {0, 1, 2}
    /\ reverseTable[0] = << >> /\ reverseTable[1] = << >>
    /\ \A v \in Vars : table[v] = 2

\* C18: with sampling variables configured, an iteration of the admission loop
\* on a component of exactly min_matrix_rows rows appends a matrix exactly if
\* rows <= max_matrix_rows, cols <= max_matrix_columns and fewer than
\* max_num_matrices matrices exist, whatever ratio_sampling is; otherwise the
\* component's constraints go to the pool.
C18_BoundaryMinRows ==
    [][ ( /\ pc = "admit" /\ a >= 1
          /\ ~conf.sampling_vars.null
          /\ matrix_shape[a].rows > 0
          /\ matrix_shape[a].rows = conf.min_matrix_rows )
        => LET m == matrix_shape[a]
               accepted == /\ m.rows <= conf.max_matrix_rows
                           /\ m.cols <= conf.max_matrix_columns
                           /\ realMatrixNum < conf.max_num_matrices
           IN  /\ accepted =>
                     /\ Len(gmatrices') = Len(gmatrices) + 1
                     /\ gmatrices'[Len(gmatrices')].xorclauses = xorsInMatrix[m.num + 1]
                     /\ xorclauses' = xorclauses
               /\ ~accepted =>
                     /\ gmatrices' = gmatrices
                     /\ Len(xorclauses') = Len(xorclauses) + m.rows ]_vars

\* with sampling variables, a component of min_matrix_rows rows was accepted at
\* ratio 0 and after it another one was rejected by the cap at ratio 1
C18_Witness ==
    /\ pc = "done" /\ xi > 0
    /\ ~conf.sampling_vars.null
    /\ Len(gmatrices) = conf.max_num_matrices
    /\ \E p, q \in DOMAIN matrix_shape :
          /\ q < p
          /\ matrix_shape[p].rows = conf.min_matrix_rows
          /\ matrix_shape[q].rows = conf.min_matrix_rows
          /\ matrix_shape[p].rows > 0
          /\ size_rules(matrix_shape[q], conf)
          /\ SamplingCovered(members_of(reverseTable, matrix_shape[p].num)) = 0
          /\ Len(conf.sampling_vars.v) > 0
          /\ SamplingCovered(members_of(reverseTable, matrix_shape[q].num))
                = Len(conf.sampling_vars.v)
          /\ InRegistry(matrix_shape[p])
          /\ ~InRegistry(matrix_shape[q])
          /\ InPool(matrix_shape[q])

\* the larger of two numbers
Max(x, y) == IF x < y THEN y ELSE x

\* the step from the partitioning loop into setup_matrices_attach_remaining_cls
EntersSetup == pc = "partition" /\ pc' # "partition"

\* C19: with sampling variables, the step into the admission stage writes
\* max(max_matrix_rows, 3 x number of sampling variables) into the configuration
\* and changes no other threshold; no other step changes the configuration, so
\* every iteration of the admission loop reads the raised value and it is still
\* there after the return. Without sampling variables, and in a run that takes a
\* short-circuit, no step changes the configuration.
C19_RaisedRowLimit ==
    [][ /\ (EntersSetup /\ ~conf.sampling_vars.null) =>
               conf' = [conf EXCEPT !.max_matrix_rows =
                           Max(conf.max_matrix_rows, 3 * Len(conf.sampling_vars.v))]
        /\ ~(EntersSetup /\ ~conf.sampling_vars.null) => conf' = conf
        /\ xi' = 0 => conf' = conf
        /\ (pc' \in {"admit", "done"} /\ xi' > 0 /\ ~conf.sampling_vars.null) =>
               conf'.max_matrix_rows >= 3 * Len(conf.sampling_vars.v) ]_vars

\* a full run with two sampling variables has returned: the row limit is 6, a
\* value no configuration starts with, and a component of min_matrix_rows = 2
\* rows was accepted under it
C19_Witness ==
    /\ pc = "done" /\ xi > 0
    /\ ~conf.sampling_vars.null
    /\ Len(conf.sampling_vars.v) = 2
    /\ conf.max_matrix_rows = 6
    /\ conf.min_matrix_rows = 2
    /\ \E g \in DOMAIN gmatrices : Len(gmatrices[g].xorclauses) = 2

====
